---- MODULE Spec2Model ----
(***************************************************************************)
(* scripts/merge_character_loras.py: merging LoRA adapters into a base     *)
(* weight set.                                                             *)
(*                                                                         *)
(* Identifiers (dict keys) are sequences of one-character strings, so that *)
(* str.replace, str.startswith, slicing and the "in" substring test are    *)
(* computed character by character as Python computes them.                *)
(*                                                                         *)
(* A tensor is a record [shape, dtype, data]: data is the row-major list   *)
(* of its entries.  Arithmetic is exact: an entry of a weight-set tensor   *)
(* is an integer count of 1/Unit, an entry of an adapter factor and an     *)
(* alpha are plain integers, a strength is an integer count of tenths.     *)
(* The precision of a tensor is carried by its dtype tag.                  *)
(***************************************************************************)
EXTENDS Integers, Sequences, FiniteSets, TLC

VARIABLES
    pc,              \* where the run is
    chars_left,      \* main: the characters the loop has not reached yet
    created_models,  \* main: created_models
    character_name,  \* merge_loras_for_character's argument
    orig,            \* the base weight set as load_file returned it
    base_weights,    \* merge_loras_for_character's working weight set
    entry,           \* index of the adapter the job is at (0 outside a job)
    lora_weights,    \* apply_lora_to_weights: the adapter's weight set
    strength,        \* apply_lora_to_weights: strength, in tenths
    todo,            \* apply_lora_to_weights: lora_keys still to iterate over
    merged,          \* apply_lora_to_weights: merged
    applied,         \* apply_lora_to_weights: applied
    last,            \* the last iteration of the loop over lora_keys
    log,             \* one record per adapter of the job, in processing order
    saved,           \* what save_file was handed
    aux              \* inputs and results of the calls of a pure function

vars == <<pc, chars_left, created_models, character_name, orig, base_weights, entry,
          lora_weights, strength, todo, merged, applied, last, log, saved, aux>>

(***************************************************************************)
(* Bounds of the model.                                                    *)
(***************************************************************************)
\* largest fill value of an input tensor
MaxVal == 1
\* largest rank (leading dimension of a down factor)
MaxRank == 2
\* largest kernel width of a convolutional down factor
MaxKw == 2

RECURSIVE Fact(_)
Fact(n) == IF n <= 1 THEN 1 ELSE n * Fact(n - 1)

\* weight-set entries are counted in 1/Unit: Unit is divisible by 10 * rank
Unit == 10 * Fact(MaxRank + 1)

(***************************************************************************)
(* Python strings.                                                         *)
(***************************************************************************)
StartsWith(s, p) == Len(s) >= Len(p) /\ SubSeq(s, 1, Len(p)) = p

\* p in s
Contains(s, p) == \E i \in 1..(Len(s) - Len(p) + 1) : SubSeq(s, i, i + Len(p) - 1) = p

\* s.replace(old, new), old not empty: every occurrence, left to right
RECURSIVE Replace(_, _, _)
Replace(s, old, new) ==
    IF Len(s) < Len(old) THEN s
    ELSE IF SubSeq(s, 1, Len(old)) = old
         THEN new \o Replace(SubSeq(s, Len(old) + 1, Len(s)), old, new)
         ELSE <<Head(s)>> \o Replace(Tail(s), old, new)

S_lora_unet == <<"l","o","r","a","_","u","n","e","t","_">>
S_lora_down_dot == <<".","l","o","r","a","_","d","o","w","n",".">>
S_lora_A_dot == <<".","l","o","r","a","_","A",".">>
S_lora_down_weight == <<".","l","o","r","a","_","d","o","w","n",".","w","e","i","g","h","t">>
S_lora_up_weight == <<".","l","o","r","a","_","u","p",".","w","e","i","g","h","t">>
S_lora_A_weight == <<".","l","o","r","a","_","A",".","w","e","i","g","h","t">>
S_lora_B_weight == <<".","l","o","r","a","_","B",".","w","e","i","g","h","t">>
S_alpha == <<".","a","l","p","h","a">>
S_weight == <<".","w","e","i","g","h","t">>
S_model_diffusion_model == <<"m","o","d","e","l",".","d","i","f","f","u","s","i","o","n","_","m","o","d","e","l",".">>

(***************************************************************************)
(* Tensors.                                                                *)
(***************************************************************************)
RECURSIVE Numel(_)
Numel(shape) == IF shape = <<>> THEN 1 ELSE Head(shape) * Numel(Tail(shape))

RECURSIVE SumFn(_, _)
SumFn(f, n) == IF n = 0 THEN 0 ELSE f[n] + SumFn(f, n - 1)

Max(a, b) == IF a >= b THEN a ELSE b

\* up @ down for two 2-D tensors; the caller has checked the inner dimensions
MatMul(up, down) ==
    LET m == up.shape[1]
        r == up.shape[2]
        n == down.shape[2]
    IN [shape |-> <<m, n>>,
        dtype |-> up.dtype,
        data |-> [x \in 1..(m * n) |->
                    LET i == ((x - 1) \div n) + 1
                        j == ((x - 1) % n) + 1
                    IN SumFn([k \in 1..r |-> up.data[(i - 1) * r + k]
                                              * down.data[(k - 1) * n + j]], r)]]

\* index of entry (a, b, c, d) in the row-major data of a 4-D tensor
Flat4(shape, a, b, c, d) ==
    (((a - 1) * shape[2] + (b - 1)) * shape[3] + (c - 1)) * shape[4] + d

\* a subscript shared by two operands: sizes equal, or one of them 1
Broadcastable(a, b) == a = b \/ a = 1 \/ b = 1

\* position x of a subscript in an operand whose dimension has size n
Bidx(x, n) == IF n = 1 THEN 1 ELSE x

\* torch.einsum('orhw,rich->oicw', up, down): o, r, h, w label up's axes and
\* r, i, c, h label down's; r and h are summed, the result is [o, i, c, w]
Einsum(up, down) ==
    LET O == up.shape[1]
        R == Max(up.shape[2], down.shape[1])
        H == Max(up.shape[3], down.shape[4])
        W == up.shape[4]
        I == down.shape[2]
        C == down.shape[3]
        oshape == <<O, I, C, W>>
    IN [shape |-> oshape,
        dtype |-> up.dtype,
        data |-> [x \in 1..(O * I * C * W) |->
                    LET w == ((x - 1) % W) + 1
                        c == (((x - 1) \div W) % C) + 1
                        i == (((x - 1) \div (W * C)) % I) + 1
                        o == ((x - 1) \div (W * C * I)) + 1
                    IN SumFn([rh \in 1..(R * H) |->
                                LET r == ((rh - 1) \div H) + 1
                                    h == ((rh - 1) % H) + 1
                                IN up.data[Flat4(up.shape, o, Bidx(r, up.shape[2]),
                                                 Bidx(h, up.shape[3]), w)]
                                   * down.data[Flat4(down.shape, Bidx(r, down.shape[1]),
                                                     i, c, Bidx(h, down.shape[4]))]],
                             R * H)]]

(***************************************************************************)
(* apply_lora_to_weights.                                                  *)
(***************************************************************************)
\* the value of a name that holds no key
NoKey == <<"None">>

\* the group identifier a down/A factor key is recorded under
GroupOf(key) ==
    IF Contains(key, S_lora_down_dot) THEN Replace(key, S_lora_down_weight, <<>>)
    ELSE Replace(key, S_lora_A_weight, <<>>)

\* lora_keys: the set built by the scan over the adapter's keys
LoraKeys(lw) ==
    {GroupOf(key) : key \in {k \in DOMAIN lw : Contains(k, S_lora_down_dot)
                                                \/ Contains(k, S_lora_A_dot)}}

\* base_key: the group identifier without a leading "lora_unet_"
BaseKey(lora_key) ==
    IF StartsWith(lora_key, S_lora_unet) THEN SubSeq(lora_key, 11, Len(lora_key))
    ELSE lora_key

\* the candidate list with the dotted name tried before the raw one
BaseKeyCandidates_DottedFirst(lora_key) ==
    LET base_key == BaseKey(lora_key)
    IN <<Replace(base_key, <<"_">>, <<".">>),
         base_key,
         S_model_diffusion_model \o base_key,
         S_model_diffusion_model \o Replace(base_key, <<"_">>, <<".">>)>>

\* base_key_candidates
BaseKeyCandidates(lora_key) ==
    LET base_key == BaseKey(lora_key)
    IN <<base_key,
         Replace(base_key, <<"_">>, <<".">>),
         S_model_diffusion_model \o base_key,
         S_model_diffusion_model \o Replace(base_key, <<"_">>, <<".">>)>>

\* the loop over base_key_candidates, from candidate i on
RECURSIVE FindTarget(_, _, _)
FindTarget(keys, cands, i) ==
    IF i > Len(cands) THEN NoKey
    ELSE IF cands[i] \in keys THEN cands[i]
    ELSE IF (cands[i] \o S_weight) \in keys THEN cands[i] \o S_weight
    ELSE FindTarget(keys, cands, i + 1)

\* target_key for a group identifier in the working weight set m
ResolveTarget(m, lora_key) == FindTarget(DOMAIN m, BaseKeyCandidates(lora_key), 1)

\* the scaling with the factor strength left out
ScaleEntry_NoStrength(p, alpha, rank, s10) ==
    IF rank > 0 THEN p * alpha * 10 * (Unit \div (10 * rank))
    ELSE p * 10 * (Unit \div 10)

\* one entry of (product) * scale * strength, in 1/Unit; scale = alpha / rank
\* when rank > 0 and 1.0 otherwise; s10 is the strength in tenths
ScaleEntry(p, alpha, rank, s10) ==
    IF rank > 0 THEN p * alpha * s10 * (Unit \div (10 * rank))
    ELSE p * s10 * (Unit \div 10)

ScaleTensor(t, alpha, rank, s10) ==
    [t EXCEPT !.data = [x \in 1..Len(t.data) |-> ScaleEntry(t.data[x], alpha, rank, s10)]]

\* the update without its shape test
ShapeOk_Unchecked(delta, t) == TRUE

\* delta.shape == merged[target_key].shape
ShapeOk(delta, t) == delta.shape = t.shape

\* t.to(delta.dtype) + delta; the code reaches the sum only with equal shapes,
\* where it is entry by entry (otherwise the smaller operand is repeated)
TensorAdd(t, delta) ==
    LET big == IF Len(delta.data) >= Len(t.data) THEN delta ELSE t
        at(u, x) == IF Len(u.data) = 0 THEN 0 ELSE u.data[((x - 1) % Len(u.data)) + 1]
    IN [shape |-> big.shape,
        dtype |-> delta.dtype,
        data |-> [x \in 1..Len(big.data) |-> at(t, x) + at(delta, x)]]

\* d[k] = v on a Python dict
DictSet(d, k, v) == [x \in (DOMAIN d) \cup {k} |-> IF x = k THEN v ELSE d[x]]

\* the delta added to every tensor of its shape
ApplyDelta_EveryMatchingShape(m, target_key, delta) ==
    [k \in DOMAIN m |-> IF m[k].shape = delta.shape THEN TensorAdd(m[k], delta) ELSE m[k]]

\* the sum stored under the candidate name, without the .weight suffix
ApplyDelta_ToCandidate(m, target_key, delta) ==
    DictSet(m, Replace(target_key, S_weight, <<>>), TensorAdd(m[target_key], delta))

\* merged[target_key] = merged[target_key].to(delta.dtype) + delta
ApplyDelta(m, target_key, delta) == DictSet(m, target_key, TensorAdd(m[target_key], delta))

\* torch.tensor(n): a 0-dimensional tensor
ScalarTensor(n) == [shape |-> <<>>, dtype |-> "int64", data |-> <<n>>]

\* the shape of a delta that was never built
NoShape == <<"None">>

\* One iteration of the loop over lora_keys: what it does to merged and to the
\* applied counter.  outcome "raise" is an exception leaving the function,
\* "caught" one that the try around the delta computation absorbs.
ProcessPair(m, lw, lora_key, s10) ==
    LET keys == DOMAIN lw
        conv == IF (lora_key \o S_lora_down_weight) \in keys THEN 1
                ELSE IF (lora_key \o S_lora_A_weight) \in keys THEN 2
                ELSE 0
        down_key == IF conv = 1 THEN lora_key \o S_lora_down_weight
                    ELSE lora_key \o S_lora_A_weight
        up_key == IF conv = 1 THEN lora_key \o S_lora_up_weight
                  ELSE lora_key \o S_lora_B_weight
        alpha_key == lora_key \o S_alpha
        Out(why, tk, ap, mm, ds) ==
            [merged |-> mm, applied |-> ap, outcome |-> why, target |-> tk,
             delta_shape |-> ds]
        Skip(why, tk) == Out(why, tk, 0, m, NoShape)
        Accumulate(tk, delta) ==
            IF ShapeOk(delta, m[tk])
            THEN Out("applied", tk, 1, ApplyDelta(m, tk, delta), delta.shape)
            ELSE Out("shape_mismatch", tk, 0, m, delta.shape)
    IN IF conv = 0 THEN Skip("no_down", NoKey)
       ELSE IF up_key \notin keys THEN Skip("no_up", NoKey)
       ELSE
       LET down == lw[down_key]
           up == lw[up_key]
       IN \* down.shape[0] of a 0-dimensional tensor: IndexError
          IF down.shape = <<>> THEN Skip("raise", NoKey)
          ELSE
          LET alphaT == IF alpha_key \in keys THEN lw[alpha_key]
                        ELSE ScalarTensor(down.shape[1])
          IN \* alpha.item() of a tensor that has not exactly one element
             IF Numel(alphaT.shape) # 1 THEN Skip("raise", NoKey)
             ELSE
             LET alpha == alphaT.data[1]
                 rank == down.shape[1]
                 target_key == ResolveTarget(m, lora_key)
             IN IF target_key = NoKey THEN Skip("unresolved", NoKey)
                ELSE IF Len(down.shape) = 2 /\ Len(up.shape) = 2 THEN
                    \* up @ down raises on unequal inner dimensions or dtypes
                    IF up.shape[2] # down.shape[1] \/ up.dtype # down.dtype
                    THEN Skip("caught", target_key)
                    ELSE Accumulate(target_key,
                                    ScaleTensor(MatMul(up, down), alpha, rank, s10))
                ELSE IF Len(down.shape) = 4 /\ Len(up.shape) = 4 THEN
                    \* einsum raises on subscripts that do not broadcast or on
                    \* unequal dtypes, reshape on a different number of entries
                    IF ~Broadcastable(up.shape[2], down.shape[1])
                       \/ ~Broadcastable(up.shape[3], down.shape[4])
                       \/ up.dtype # down.dtype
                    THEN Skip("caught", target_key)
                    ELSE LET d0 == ScaleTensor(Einsum(up, down), alpha, rank, s10)
                         IN IF d0.shape = m[target_key].shape
                            THEN Accumulate(target_key, d0)
                            ELSE IF Numel(d0.shape) # Numel(m[target_key].shape)
                            THEN Skip("caught", target_key)
                            ELSE Accumulate(target_key,
                                            [d0 EXCEPT !.shape = m[target_key].shape])
                ELSE Skip("unsupported", target_key)

\* what a call that raised leaves its caller
Raised == [merged |-> <<>>, applied |-> 0, raised |-> TRUE]

\* apply_lora_to_weights with the loop over lora_keys run in the order seq
RECURSIVE ApplySeq(_, _, _, _, _)
ApplySeq(m, lw, s, seq, count) ==
    IF seq = <<>> THEN [merged |-> m, applied |-> count, raised |-> FALSE]
    ELSE LET r == ProcessPair(m, lw, Head(seq), s)
         IN IF r.outcome = "raise" THEN Raised
            ELSE ApplySeq(r.merged, lw, s, Tail(seq), count + r.applied)

\* the orders a set can be iterated in
RECURSIVE Orders(_)
Orders(S) == IF S = {} THEN {<<>>}
             ELSE UNION {{<<x>> \o o : o \in Orders(S \ {x})} : x \in S}

(***************************************************************************)
(* merge_loras_for_character.                                              *)
(***************************************************************************)
BASE_MODEL == "models/unet/qwen_image_bf16.safetensors"
OUTPUT_DIR == "models/unet"

COMMON_LORAS ==
    <<[path |-> "models/loras/qwen-boreal-portraits-portraits-high-rank.safetensors",
       strength |-> 6],
      [path |-> "models/loras/Qwen-Image-Lightning-4steps-V2.0.safetensors",
       strength |-> 10]>>

CHARACTER_LORAS ==
    [ava |-> [path |-> "models/loras/vixxxen-prefabs/Ava_QWEN_v1.safetensors",
              strength |-> 10],
     eve |-> [path |-> "models/loras/vixxxen-prefabs/Eve_QWEN_v1.safetensors",
              strength |-> 10],
     suyeon |-> [path |-> "models/loras/vixxxen-prefabs/Suyeon_QWEN_v1.safetensors",
                 strength |-> 10]]

\* the common adapters ahead of the character adapter
JobEntries_CommonFirst(name) == COMMON_LORAS \o <<CHARACTER_LORAS[name]>>

\* the adapters of one job in the order the function body reaches them
JobEntries(name) == <<CHARACTER_LORAS[name]>> \o COMMON_LORAS

\* the branch without the test of os.path.exists: every path is loaded
EntryBranch_NoExistsCheck(exists) == "apply"

\* if os.path.exists(path): load and apply; else: the warning
EntryBranch(exists) == IF exists THEN "apply" ELSE "skip"

\* merged_bf16
Finalize(w) ==
    [k \in DOMAIN w |-> IF w[k].dtype = "float32"
                        THEN [w[k] EXCEPT !.dtype = "bfloat16"]
                        ELSE w[k]]

\* os.path.join(OUTPUT_DIR, f"qwen_{character_name}_merged.safetensors")
OutputPath(name) == <<OUTPUT_DIR, "/", "qwen_", name, "_merged.safetensors">>

(***************************************************************************)
(* The inputs: what load_file returns for the base and for the adapters.   *)
(***************************************************************************)
DTypes == {"float32", "bfloat16", "float16"}

K_a_b == <<"a", "_", "b">>
K_a_dot_b == <<"a", ".", "b">>
K_c == <<"c">>
K_zz == <<"z", "z">>

\* group identifiers of adapter pairs
G_ab == S_lora_unet \o K_a_b
G_adotb == K_a_dot_b
G_c == S_lora_unet \o K_c
G_zz == S_lora_unet \o K_zz

\* a tensor of the given shape whose entries are v, 2v, 3v, ...
Fill(shape, dtype, v) ==
    [shape |-> shape, dtype |-> dtype, data |-> [x \in 1..Numel(shape) |-> v * x]]

\* stands for a tensor that a file does not hold
NoT == [shape |-> <<>>, dtype |-> "absent", data |-> <<>>]

\* a base with a linear layer a.b.weight and a convolution c.weight of kernel kh x kw
BaseLinConv(d, kh, kw) ==
    ((K_a_dot_b \o S_weight) :> Fill(<<2, 2>>, d, MaxVal))
    @@ ((K_c \o S_weight) :> Fill(<<1, 1, kh, kw>>, "bfloat16", MaxVal))

\* a base that names the same layer a_b and model.diffusion_model.a.b.weight
BaseTwoNames(d) ==
    (K_a_b :> Fill(<<2, 2>>, d, MaxVal))
    @@ ((S_model_diffusion_model \o K_a_dot_b \o S_weight) :> Fill(<<2, 2>>, "bfloat16", MaxVal))

\* the keys one pair puts in an adapter file; conv 1 is lora_down/lora_up, 2 is lora_A/lora_B
Group(name, conv, down, up, alpha) ==
    LET dk == name \o (IF conv = 1 THEN S_lora_down_weight ELSE S_lora_A_weight)
        uk == name \o (IF conv = 1 THEN S_lora_up_weight ELSE S_lora_B_weight)
        ak == name \o S_alpha
        present == {dk} \cup (IF up = NoT THEN {} ELSE {uk})
                        \cup (IF alpha = NoT THEN {} ELSE {ak})
    IN [k \in present |-> IF k = dk THEN down ELSE IF k = uk THEN up ELSE alpha]

\* <<down, up>> factor pairs
LinearPairs(v) ==
    {<<Fill(<<r, 2>>, "float32", v), Fill(<<2, r>>, "float32", v)>> : r \in 0..MaxRank}
    \cup {<<Fill(<<1, 2>>, d, v), Fill(<<2, 1>>, d, v)>> : d \in {"float16", "bfloat16"}}

ConvPairs(v) ==
    {<<Fill(<<1, 1, kh, kw>>, "float32", v), Fill(<<1, 1, 1, 1>>, "float32", v)>> :
        kh \in 1..MaxKw, kw \in 1..MaxKw}
    \cup {<<Fill(<<1, 2, 1, 1>>, "float32", v), Fill(<<2, 1, 1, 1>>, "float32", v)>>}

OddPairs(v) ==
    {<<Fill(<<1, 2>>, "float32", v), Fill(<<2, 1>>, "float16", v)>>,
     <<Fill(<<1, 2>>, "float32", v), Fill(<<1, 1>>, "float32", v)>>,
     <<Fill(<<1, 2>>, "float32", v), Fill(<<2, 2>>, "float32", v)>>,
     <<Fill(<<1, 2, 1>>, "float32", v), Fill(<<2, 1, 1>>, "float32", v)>>,
     <<Fill(<<1, 2>>, "float32", v), Fill(<<2, 1, 1, 1>>, "float32", v)>>,
     <<Fill(<<>>, "float32", v), Fill(<<2, 1>>, "float32", v)>>,
     <<Fill(<<1, 2>>, "float32", v), NoT>>}

FactorPairs == UNION {LinearPairs(v) \cup ConvPairs(v) \cup OddPairs(v) : v \in 1..MaxVal}

\* alpha entries: none, a scalar, a tensor of two elements
Alphas == {NoT, ScalarTensor(2), Fill(<<2>>, "float32", 1)}

\* two pairs of one file that resolve to the same layer, and a file with a
\* key that names no factor
TwoGroupAdapters ==
    {Group(G_ab, 1, p[1], p[2], NoT) @@ Group(G_adotb, 2, q[1], q[2], ScalarTensor(2)) :
        p \in LinearPairs(1), q \in LinearPairs(1) \cup OddPairs(1)}
    \cup {Group(G_ab, 1, p[1], p[2], NoT)
          @@ ((K_c \o S_lora_down_dot \o <<"b", "i", "a", "s">>) :> Fill(<<1>>, "float32", 1)) :
            p \in LinearPairs(1)}

\* the adapters apply_lora_to_weights is called with on its own
PassAdapters ==
    {Group(n, c, p[1], p[2], a) :
        n \in {G_ab, G_c, G_zz}, c \in {1, 2}, p \in FactorPairs, a \in Alphas}
    \cup TwoGroupAdapters

PassBases ==
    {BaseLinConv(d, kh, kw) : d \in DTypes, kh \in 1..MaxKw, kw \in 1..MaxKw}
    \cup {BaseTwoNames(d) : d \in DTypes}

PassStrengths == {0, 6, 10}

\* what the adapter files of a job hold
JobAdapters ==
    {Group(G_ab, 1, Fill(<<1, 2>>, "float32", 1), Fill(<<2, 1>>, "float32", 1), ScalarTensor(2)),
     Group(G_adotb, 2, Fill(<<2, 2>>, "float16", 1), Fill(<<2, 2>>, "float16", 1), NoT),
     Group(G_c, 1, Fill(<<1, 1, 1, 1>>, "float32", 1), Fill(<<1, 1, 1, 1>>, "float32", 1), NoT),
     Group(G_ab, 1, Fill(<<>>, "float32", 1), Fill(<<2, 1>>, "float32", 1), NoT),
     Group(G_zz, 1, Fill(<<1, 2>>, "float32", 1), Fill(<<2, 1>>, "float32", 1), NoT)
        @@ Group(G_ab, 2, Fill(<<1, 2>>, "float32", 1), Fill(<<1, 1>>, "float32", 1), NoT),
     Group(G_ab, 1, Fill(<<1, 2>>, "float32", 1), Fill(<<2, 1>>, "float32", 1), NoT)
        @@ Group(G_adotb, 1, Fill(<<1, 2>>, "bfloat16", 1), Fill(<<2, 1>>, "bfloat16", 1), NoT)}

JobBases == {BaseLinConv(d, 1, 1) : d \in DTypes} \cup {BaseTwoNames(d) : d \in DTypes}

\* stands for the adapter file that does not exist
Missing == <<"missing">>

\* weight sets and loop records that hold nothing
Empty == <<>>
NoLast == [key |-> NoKey, outcome |-> "none", target |-> NoKey, before |-> Empty,
           delta_shape |-> NoShape, applied_before |-> 0]
NoSave == [path |-> <<>>, weights |-> Empty]

(***************************************************************************)
(* main and merge_loras_for_character.                                     *)
(***************************************************************************)
\* CHARACTER_LORAS.items() iterates in insertion order
CharacterOrder == <<"ava", "eve", "suyeon">>

\* the variables of one call of merge_loras_for_character, before it
JobReset ==
    /\ orig' = Empty
    /\ base_weights' = Empty
    /\ entry' = 0
    /\ lora_weights' = Empty
    /\ strength' = 0
    /\ todo' = {}
    /\ merged' = Empty
    /\ applied' = 0
    /\ last' = NoLast
    /\ log' = <<>>
    /\ saved' = NoSave

Init ==
    /\ pc = "main"
    /\ chars_left = CharacterOrder
    /\ created_models = <<>>
    /\ character_name = "none"
    /\ orig = Empty
    /\ base_weights = Empty
    /\ entry = 0
    /\ lora_weights = Empty
    /\ strength = 0
    /\ todo = {}
    /\ merged = Empty
    /\ applied = 0
    /\ last = NoLast
    /\ log = <<>>
    /\ saved = NoSave
    /\ aux = <<>>

\* main: without the base model nothing is merged and main returns 1
Main ==
    /\ pc = "main"
    /\ \E base_exists \in BOOLEAN : pc' = IF base_exists THEN "loop" ELSE "return 1"
    /\ UNCHANGED <<chars_left, created_models, character_name, orig, base_weights, entry,
                   lora_weights, strength, todo, merged, applied, last, log, saved, aux>>

\* main: the loop over CHARACTER_LORAS calls merge_loras_for_character, or
\* ends with the summary and return 0
NextCharacter ==
    /\ pc = "loop"
    /\ IF chars_left = <<>>
       THEN /\ pc' = "return 0"
            /\ UNCHANGED <<chars_left, character_name, orig, base_weights, entry,
                           lora_weights, strength, todo, merged, applied, last, log, saved>>
       ELSE /\ pc' = "start"
            /\ character_name' = Head(chars_left)
            /\ chars_left' = Tail(chars_left)
            /\ JobReset
    /\ UNCHANGED <<created_models, aux>>

\* main: the call returned output_path
JobReturned ==
    /\ pc = "done"
    /\ created_models' = Append(created_models, <<character_name, saved.path>>)
    /\ pc' = "loop"
    /\ UNCHANGED <<chars_left, character_name, orig, base_weights, entry, lora_weights,
                   strength, todo, merged, applied, last, log, saved, aux>>

\* main: except Exception around the call; the loop goes on
JobFailed ==
    /\ pc = "raised"
    /\ entry > 0
    /\ pc' = "loop"
    /\ UNCHANGED <<chars_left, created_models, character_name, orig, base_weights, entry,
                   lora_weights, strength, todo, merged, applied, last, log, saved, aux>>

\* base_weights = load_file(BASE_MODEL)
LoadBase ==
    /\ pc = "start"
    /\ \E w \in JobBases : base_weights' = w /\ orig' = w
    /\ entry' = 1
    /\ pc' = "entry"
    /\ UNCHANGED <<chars_left, created_models, character_name, lora_weights, strength,
                   todo, merged, applied, last, log, saved, aux>>
\* where the job goes after adapter number entry
AfterEntry == IF entry = Len(JobEntries(character_name)) THEN "save" ELSE "entry"

\* The next adapter of the job: os.path.exists, then load_file and the start
\* of apply_lora_to_weights (merged is a copy of base_weights, lora_keys is
\* collected), or the warning.  file is what the path holds.
EntryStep ==
    /\ pc = "entry"
    /\ \E file \in JobAdapters \cup {Missing} :
        LET e == JobEntries(character_name)[entry]
            branch == EntryBranch(file # Missing)
        IN IF branch = "apply" /\ file # Missing
           THEN /\ lora_weights' = file
                /\ strength' = e.strength
                /\ merged' = base_weights
                /\ todo' = LoraKeys(file)
                /\ applied' = 0
                /\ last' = NoLast
                /\ pc' = "pass"
                /\ UNCHANGED <<entry, log, base_weights>>
           ELSE IF branch = "skip"
           THEN /\ log' = Append(log, [path |-> e.path, strength |-> e.strength,
                                       exists |-> FALSE, file |-> Missing,
                                       input |-> base_weights,
                                       output |-> base_weights, applied |-> 0])
                /\ entry' = entry + 1
                /\ pc' = AfterEntry
                /\ UNCHANGED <<lora_weights, strength, merged, todo, applied, last,
                               base_weights>>
           ELSE \* load_file of a path that does not exist raises
                /\ pc' = "raised"
                /\ UNCHANGED <<lora_weights, strength, merged, todo, applied, last,
                               base_weights, entry, log>>
    /\ UNCHANGED <<chars_left, created_models, character_name, orig, saved, aux>>

\* One iteration of the loop over lora_keys; a set is iterated in no given order.
PairStep ==
    /\ pc = "pass"
    /\ \E lora_key \in todo :
        LET r == ProcessPair(merged, lora_weights, lora_key, strength)
        IN /\ last' = [key |-> lora_key, outcome |-> r.outcome, target |-> r.target,
                       before |-> merged, delta_shape |-> r.delta_shape,
                       applied_before |-> applied]
           /\ IF r.outcome = "raise"
              THEN pc' = "raised" /\ UNCHANGED <<merged, applied, todo>>
              ELSE /\ merged' = r.merged
                   /\ applied' = applied + r.applied
                   /\ todo' = todo \ {lora_key}
                   /\ pc' = "pass"
    /\ UNCHANGED <<chars_left, created_models, character_name, orig, base_weights, entry,
                   lora_weights, strength, log, saved, aux>>

\* return merged, into base_weights of the job; the adapter is released
PassReturn ==
    /\ pc = "pass"
    /\ todo = {}
    /\ entry > 0
    /\ base_weights' = merged
    /\ log' = Append(log, [path |-> JobEntries(character_name)[entry].path,
                           strength |-> strength, exists |-> TRUE,
                           file |-> lora_weights, input |-> base_weights, output |-> merged,
                           applied |-> applied])
    /\ lora_weights' = Empty
    /\ entry' = entry + 1
    /\ pc' = AfterEntry
    /\ UNCHANGED <<chars_left, created_models, character_name, orig, strength, todo,
                   merged, applied, last, saved, aux>>

\* merged_bf16 and save_file(merged_bf16, output_path)
Save ==
    /\ pc = "save"
    /\ saved' = [path |-> OutputPath(character_name), weights |-> Finalize(base_weights)]
    /\ pc' = "done"
    /\ UNCHANGED <<chars_left, created_models, character_name, orig, base_weights, entry,
                   lora_weights, strength, todo, merged, applied, last, log, aux>>

Next ==
    \/ Main
    \/ NextCharacter
    \/ LoadBase
    \/ EntryStep
    \/ PairStep
    \/ PassReturn
    \/ Save
    \/ JobReturned
    \/ JobFailed

Spec == Init /\ [][Next]_vars

(***************************************************************************)
(* One call of apply_lora_to_weights on its own, with any adapter and any  *)
(* strength.                                                               *)
(***************************************************************************)
\* the variables of main and of the job, which such a call does not touch
NoJob ==
    /\ chars_left = <<>>
    /\ created_models = <<>>
    /\ character_name = "none"
    /\ entry = 0
    /\ log = <<>>
    /\ saved = NoSave

InitPass ==
    /\ pc = "call"
    /\ NoJob
    /\ base_weights \in PassBases
    /\ orig = base_weights
    /\ lora_weights \in PassAdapters
    /\ strength \in PassStrengths
    /\ todo = {}
    /\ merged = Empty
    /\ applied = 0
    /\ last = NoLast
    /\ aux = <<>>

\* merged = {k: v.clone() ...}, the scan that collects lora_keys, applied = 0
CallApply ==
    /\ pc = "call"
    /\ merged' = base_weights
    /\ todo' = LoraKeys(lora_weights)
    /\ applied' = 0
    /\ pc' = "pass"
    /\ UNCHANGED <<chars_left, created_models, character_name, orig, base_weights, entry,
                   lora_weights, strength, last, log, saved, aux>>

\* return merged
CallReturn ==
    /\ pc = "pass"
    /\ todo = {}
    /\ entry = 0
    /\ base_weights' = merged
    /\ pc' = "returned"
    /\ UNCHANGED <<chars_left, created_models, character_name, orig, entry, lora_weights,
                   strength, todo, merged, applied, last, log, saved, aux>>

NextPass == CallApply \/ PairStep \/ CallReturn

SpecPass == InitPass /\ [][NextPass]_vars

(***************************************************************************)
(* Key resolution on its own: the same group resolved again and again in   *)
(* one base.                                                               *)
(***************************************************************************)
\* how often a group is resolved
MaxCalls == 2

\* the eight identifiers a group a_b can resolve to
NamesOfAB ==
    {K_a_b, K_a_b \o S_weight, K_a_dot_b, K_a_dot_b \o S_weight,
     S_model_diffusion_model \o K_a_b, S_model_diffusion_model \o K_a_b \o S_weight,
     S_model_diffusion_model \o K_a_dot_b, S_model_diffusion_model \o K_a_dot_b \o S_weight}

ResolveBases ==
    {[k \in ks \cup {K_c \o S_weight} |-> Fill(<<1>>, "bfloat16", 1)] :
        ks \in SUBSET (NamesOfAB \cup {G_ab})}

ResolveGroups == {G_ab, K_a_b, G_adotb, S_lora_unet \o G_ab}

InitResolve ==
    /\ pc = "resolve"
    /\ NoJob
    /\ base_weights \in ResolveBases
    /\ orig = base_weights
    /\ lora_weights = Empty
    /\ strength = 0
    /\ todo = {}
    /\ merged = base_weights
    /\ applied = 0
    /\ last = NoLast
    /\ aux \in {[lora_key |-> g, results |-> <<>>] : g \in ResolveGroups}

\* the candidate list and the loop over it, for aux.lora_key in merged
Resolve ==
    /\ pc = "resolve"
    /\ Len(aux.results) < MaxCalls
    /\ aux' = [aux EXCEPT !.results = Append(@, ResolveTarget(merged, aux.lora_key))]
    /\ UNCHANGED <<pc, chars_left, created_models, character_name, orig, base_weights,
                   entry, lora_weights, strength, todo, merged, applied, last, log, saved>>

NextResolve == Resolve

SpecResolve == InitResolve /\ [][NextResolve]_vars

(***************************************************************************)
(* One adapter of matrix pairs applied twice, with strengths s1 and s2,    *)
(* and once, with strength s1 + s2.                                        *)
(***************************************************************************)
Is2D(t) == t = NoT \/ Len(t.shape) = 2

LinearAdapters ==
    {Group(n, c, p[1], p[2], a) :
        n \in {G_ab}, c \in {1, 2},
        p \in {q \in FactorPairs : Is2D(q[1]) /\ Is2D(q[2])}, a \in Alphas}
    \cup {lw \in TwoGroupAdapters : \A k \in DOMAIN lw : Len(lw[k].shape) <= 2}

NotRun == [merged |-> <<>>, applied |-> 0, raised |-> FALSE, orders |-> <<>>]

InitLinear ==
    /\ pc = "linear"
    /\ NoJob
    /\ base_weights \in JobBases
    /\ orig = base_weights
    /\ lora_weights \in LinearAdapters
    /\ strength = 0
    /\ todo = {}
    /\ merged = Empty
    /\ applied = 0
    /\ last = NoLast
    /\ aux \in {[s1 |-> a, s2 |-> b, twice |-> NotRun, once |-> NotRun] :
                    a \in PassStrengths, b \in PassStrengths}

\* apply_lora_to_weights(apply_lora_to_weights(base, lora, s1), lora, s2)
ApplyTwice ==
    /\ pc = "linear"
    /\ aux.twice = NotRun
    /\ \E o1 \in Orders(LoraKeys(lora_weights)), o2 \in Orders(LoraKeys(lora_weights)) :
        LET first == ApplySeq(base_weights, lora_weights, aux.s1, o1, 0)
            second == IF first.raised THEN Raised
                      ELSE ApplySeq(first.merged, lora_weights, aux.s2, o2, 0)
        IN aux' = [aux EXCEPT !.twice = [merged |-> second.merged,
                                         applied |-> second.applied,
                                         raised |-> second.raised,
                                         orders |-> <<o1, o2>>]]
    /\ UNCHANGED <<pc, chars_left, created_models, character_name, orig, base_weights,
                   entry, lora_weights, strength, todo, merged, applied, last, log, saved>>

\* apply_lora_to_weights(base, lora, s1 + s2)
ApplyOnce ==
    /\ pc = "linear"
    /\ aux.once = NotRun
    /\ \E o \in Orders(LoraKeys(lora_weights)) :
        LET r == ApplySeq(base_weights, lora_weights, aux.s1 + aux.s2, o, 0)
        IN aux' = [aux EXCEPT !.once = [merged |-> r.merged, applied |-> r.applied,
                                        raised |-> r.raised, orders |-> <<o>>]]
    /\ UNCHANGED <<pc, chars_left, created_models, character_name, orig, base_weights,
                   entry, lora_weights, strength, todo, merged, applied, last, log, saved>>

NextLinear == ApplyTwice \/ ApplyOnce

SpecLinear == InitLinear /\ [][NextLinear]_vars

(***************************************************************************)
(* The claims.                                                             *)
(***************************************************************************)

\* C1: the identifiers of the weight set after each call of
\* apply_lora_to_weights (while it runs and when it has returned) and of the
\* weight set the job saves are the identifiers of the base as it was loaded:
\* none is added, none is removed.
C1_IdentifiersPreserved ==
    /\ DOMAIN base_weights = DOMAIN orig
    /\ (pc = "pass" => DOMAIN merged = DOMAIN orig)
    /\ \A i \in DOMAIN log : DOMAIN log[i].output = DOMAIN orig
    /\ (pc = "done" => DOMAIN saved.weights = DOMAIN orig)

\* a job that merged something and saved a result different from the base
C1_Witness ==
    /\ pc = "done"
    /\ \E i \in DOMAIN log : log[i].applied > 0
    /\ \E k \in DOMAIN orig : saved.weights[k].data # orig[k].data

\* C2: the job processes the character adapter first and then the common
\* adapters in their listed order, each with its own strength; the first
\* works on the loaded base and every later one on the output of the one
\* before it; each output is what apply_lora_to_weights makes of that input;
\* and the saved tensors hold the entries of the last output.
C2_SequentialComposition ==
    /\ Len(log) <= 1 + Len(COMMON_LORAS)
    /\ \A i \in DOMAIN log :
        /\ log[i].path = IF i = 1 THEN CHARACTER_LORAS[character_name].path
                         ELSE COMMON_LORAS[i - 1].path
        /\ log[i].strength = IF i = 1 THEN CHARACTER_LORAS[character_name].strength
                             ELSE COMMON_LORAS[i - 1].strength
        /\ log[i].input = IF i = 1 THEN orig ELSE log[i - 1].output
        /\ log[i].exists =>
            \E o \in Orders(LoraKeys(log[i].file)) :
                LET r == ApplySeq(log[i].input, log[i].file, log[i].strength, o, 0)
                IN ~r.raised /\ r.merged = log[i].output /\ r.applied = log[i].applied
    /\ (pc = "done" =>
            /\ Len(log) = 1 + Len(COMMON_LORAS)
            /\ DOMAIN saved.weights = DOMAIN log[Len(log)].output
            /\ \A k \in DOMAIN saved.weights :
                /\ saved.weights[k].shape = log[Len(log)].output[k].shape
                /\ saved.weights[k].data = log[Len(log)].output[k].data)

\* a saved job whose three adapters each changed the weight set they were given
C2_Witness ==
    /\ pc = "done"
    /\ \A i \in DOMAIN log : log[i].applied > 0 /\ log[i].output # log[i].input

\* C3: an adapter whose file does not exist applies no pair and leaves the
\* working weight set as it was; the job goes on with the next adapter; the
\* job is left by an exception only from inside the loop over the pairs of an
\* adapter that exists; and a job that saves has gone through all its adapters.
C3_MissingAdapterIsSkipped ==
    /\ \A i \in DOMAIN log :
        ~log[i].exists => log[i].applied = 0 /\ log[i].output = log[i].input
    /\ (pc \in {"entry", "pass"} => entry = Len(log) + 1)
    /\ (pc = "raised" => last.outcome = "raise")
    /\ (pc \in {"save", "done"} => Len(log) = 1 + Len(COMMON_LORAS))

\* a saved job whose first and last adapter were missing and whose second
\* one was merged
C3_Witness ==
    /\ pc = "done"
    /\ ~log[1].exists
    /\ log[2].exists /\ log[2].applied > 0
    /\ ~log[3].exists
    /\ saved.weights = Finalize(log[2].output)

\* what the claim of key resolution calls raw, dotted and the eight names
C4_Raw(g) ==
    CASE g = G_ab -> K_a_b
      [] g = K_a_b -> K_a_b
      [] g = G_adotb -> K_a_dot_b
      [] g = S_lora_unet \o G_ab -> G_ab

C4_Dotted(g) ==
    CASE g = G_ab -> K_a_dot_b
      [] g = K_a_b -> K_a_dot_b
      [] g = G_adotb -> K_a_dot_b
      [] g = S_lora_unet \o G_ab -> <<"l","o","r","a",".","u","n","e","t",".","a",".","b">>

C4_EightNames(g) ==
    <<C4_Raw(g), C4_Raw(g) \o S_weight,
      C4_Dotted(g), C4_Dotted(g) \o S_weight,
      S_model_diffusion_model \o C4_Raw(g), S_model_diffusion_model \o C4_Raw(g) \o S_weight,
      S_model_diffusion_model \o C4_Dotted(g),
      S_model_diffusion_model \o C4_Dotted(g) \o S_weight>>

C4_Expected(keys, g) ==
    LET hits == {i \in 1..8 : C4_EightNames(g)[i] \in keys}
    IN IF hits = {} THEN NoKey
       ELSE C4_EightNames(g)[CHOOSE i \in hits : \A j \in hits : i <= j]

\* C4: the target of a group identifier is the first identifier of the base
\* in the order raw, raw.weight, dotted, dotted.weight,
\* model.diffusion_model.raw, that + .weight, model.diffusion_model.dotted,
\* that + .weight, where raw is the group without a leading lora_unet_ and
\* dotted is raw with every _ turned into a dot; it is None exactly when none
\* of the eight is in the base; and every resolution of the same group in the
\* same base gives the same answer.
C4_FirstCandidateWins ==
    pc = "resolve" =>
        \A i \in DOMAIN aux.results :
            aux.results[i] = C4_Expected(DOMAIN merged, aux.lora_key)

\* a group resolved twice to a name late in the order while later names exist too
C4_Witness ==
    /\ pc = "resolve"
    /\ aux.lora_key = G_ab
    /\ Len(aux.results) = MaxCalls
    /\ aux.results[1] = K_a_dot_b \o S_weight
    /\ (S_model_diffusion_model \o K_a_b) \in DOMAIN merged
    /\ K_a_b \notin DOMAIN merged

\* C5: an iteration of the loop over lora_keys that does not apply its pair
\* leaves merged entirely as it was; one that applies it leaves every tensor
\* but the resolved target as it was, and replaces the target by a tensor of
\* the same shape and number of entries.
C5_PairAllOrNothing ==
    last.outcome # "none" =>
        /\ DOMAIN merged = DOMAIN last.before
        /\ IF last.outcome = "applied"
           THEN /\ last.target \in DOMAIN merged
                /\ \A k \in DOMAIN merged \ {last.target} : merged[k] = last.before[k]
                /\ merged[last.target].shape = last.before[last.target].shape
                /\ Len(merged[last.target].data) = Len(last.before[last.target].data)
           ELSE merged = last.before

\* an applied pair that changed its target, in a base with other tensors
C5_Witness ==
    /\ last.outcome = "applied"
    /\ merged[last.target].data # last.before[last.target].data
    /\ Cardinality(DOMAIN merged) > 1

\* C6: every tensor handed to save_file is bfloat16.
C6_SavedAllBf16 ==
    pc = "done" => \A k \in DOMAIN saved.weights : saved.weights[k].dtype = "bfloat16"

\* two weight sets with the same identifiers, shapes and entries
C7_SameValues(a, b) ==
    /\ DOMAIN a = DOMAIN b
    /\ \A k \in DOMAIN a : a[k].shape = b[k].shape /\ a[k].data = b[k].data

\* C7: for an adapter of 2-D pairs, applying it with strength s1 and then
\* with s2 gives the same identifiers, shapes and entries as applying it once
\* with s1 + s2, whatever order the pairs are iterated in; the two agree on
\* raising; and the weight sets are equal, precisions included, when the
\* three passes iterate in the same order.
C7_StrengthsAdd ==
    (pc = "linear" /\ aux.twice # NotRun /\ aux.once # NotRun) =>
        /\ aux.twice.raised = aux.once.raised
        /\ ~aux.once.raised =>
            /\ C7_SameValues(aux.twice.merged, aux.once.merged)
            /\ (aux.twice.orders = <<aux.once.orders[1], aux.once.orders[1]>>
                    => aux.twice.merged = aux.once.merged)

\* both runs done with strengths 0.6 and 1.0, a pair applied, the base changed
C7_Witness ==
    /\ pc = "linear"
    /\ aux.twice # NotRun /\ aux.once # NotRun
    /\ aux.s1 = 6 /\ aux.s2 = 10
    /\ aux.once.applied > 0
    /\ \E k \in DOMAIN base_weights : aux.once.merged[k].data # base_weights[k].data

\* C8: no error of a single pair leaves apply_lora_to_weights: the job is
\* never left by an exception raised in an iteration of the loop over lora_keys.
C8_PairErrorsAreSkipped == ~(pc = "raised" /\ last.outcome = "raise")

\* the factors of the pair the last iteration worked on
C9_Down == lora_weights[last.key \o S_lora_down_weight]
C9_Up == lora_weights[last.key \o S_lora_up_weight]

\* C9: a convolutional pair with down [rank, in, kh, kw] and up
\* [out, rank, 1, 1] whose resolved target has shape [out, in, kh, kw] is
\* applied, for every kh and kw.
C9_ConvPairApplied ==
    (/\ last.outcome \notin {"none", "raise"}
     /\ (last.key \o S_lora_down_weight) \in DOMAIN lora_weights
     /\ (last.key \o S_lora_up_weight) \in DOMAIN lora_weights
     /\ Len(C9_Down.shape) = 4
     /\ Len(C9_Up.shape) = 4
     /\ C9_Up.shape = <<C9_Up.shape[1], C9_Down.shape[1], 1, 1>>
     /\ C9_Up.dtype = C9_Down.dtype
     /\ last.target # NoKey
     /\ last.before[last.target].shape
            = <<C9_Up.shape[1], C9_Down.shape[2], C9_Down.shape[3], C9_Down.shape[4]>>)
    => last.outcome = "applied"

\* C10: a pair is applied, and counted, only with a delta of exactly the
\* target's shape; merged changes only in an iteration that applies its pair;
\* the counter grows by one in exactly those iterations, from 0; so every
\* tensor keeps the shape it has in the loaded base, through the passes and
\* into the saved weight set.
C10_ShapeGuard ==
    /\ \A k \in DOMAIN base_weights : base_weights[k].shape = orig[k].shape
    /\ (pc = "pass" => \A k \in DOMAIN merged : merged[k].shape = orig[k].shape)
    /\ (pc = "done" => \A k \in DOMAIN saved.weights : saved.weights[k].shape = orig[k].shape)
    /\ (pc = "pass" /\ last.outcome = "none" => applied = 0 /\ merged = base_weights)
    /\ (last.outcome # "none" =>
            /\ (last.outcome = "applied"
                    => last.delta_shape = last.before[last.target].shape)
            /\ (merged # last.before => last.outcome = "applied")
            /\ applied = last.applied_before + (IF last.outcome = "applied" THEN 1 ELSE 0))
    /\ \A i \in DOMAIN log :
        log[i].exists => log[i].applied <= Cardinality(LoraKeys(log[i].file))

\* after an adapter that was merged, a pair whose delta has another shape
\* than its target is not applied and not counted
C10_Witness ==
    /\ pc = "pass"
    /\ Len(log) >= 1 /\ log[1].applied > 0
    /\ last.outcome = "shape_mismatch"
    /\ last.delta_shape # last.before[last.target].shape
    /\ merged = last.before
    /\ applied = last.applied_before

====
